---- MODULE Spec2Model ----
(***************************************************************************)
(* Model of vpcrouter/vpc/__init__.py: the route reconciliation cycle      *)
(* handle_spec -> connect_to_region -> get_vpc_overview ->                 *)
(* process_route_spec_config (-> _check_or_update_route / _add_new_route   *)
(* -> _choose_from_hosts, find_instance_and_emi_by_ip) -> con.close.       *)
(*                                                                         *)
(* One cycle is a sequence of steps: the entry of handle_spec, one step    *)
(* per route of the first loop of process_route_spec_config, one step per  *)
(* (prefix, route table) pair of its second loop that lacks the route, and *)
(* the closing of the connection.  An exception that leaves                *)
(* process_route_spec_config ends the cycle inside the step that raised    *)
(* it, as the except clauses of handle_spec do.                            *)
(*                                                                         *)
(* Three specifications: Spec, calls of handle_spec with one route spec    *)
(* and one set of failed hosts on any route tables; SpecWatch, calls with  *)
(* route specs that change from call to call; SpecChoose, one call of      *)
(* _choose_from_hosts statement by statement.                              *)
(***************************************************************************)
EXTENDS Integers, Sequences, FiniteSets, TLC

(***************************************************************************)
(* Bounds of the model.                                                    *)
(***************************************************************************)
MaxCycles == 2      \* calls of handle_spec that reach process_route_spec_config
MaxHosts  == 2      \* hosts listed in the whole route spec
MaxRoutes == 1      \* routes present in the route tables before the first cycle

None == "None"      \* Python's None

(***************************************************************************)
(* The VPC the provider reports.  Lists are in the order the provider      *)
(* returns them; dictionaries are iterated in the order of Cidrs and       *)
(* TableIds.                                                               *)
(***************************************************************************)
TableIds == <<"rt1", "rt2">>
Cidrs    == <<"p1", "p2">>
Tables   == {TableIds[k] : k \in 1..Len(TableIds)}
Prefixes == {Cidrs[k] : k \in 1..Len(Cidrs)}

\* d['instances']: every instance has one interface with one private address.
Instances ==
    << [id |-> "i1",
        interfaces |-> << [id |-> "e1", private_ip_address |-> "a1"] >>],
       [id |-> "i2",
        interfaces |-> << [id |-> "e2", private_ip_address |-> "a2"] >>] >>

\* Addresses a route spec may list; no interface of the VPC carries "a3".
Addresses == {"a1", "a2", "a3"}

\* What a route of a route table can be before the first cycle: a route
\* without target instance (a gateway route), a route to the interface of an
\* instance, a route whose interface is not one of its instance, and a route
\* to an instance that the reservations no longer list.  (Routes to "i2"
\* come into being when a cycle creates them; the VPC is symmetric in its
\* two instances.)
RouteKinds ==
    { [instance_id |-> None, interface_id |-> None],
      [instance_id |-> "i1", interface_id |-> "e1"],
      [instance_id |-> "i1", interface_id |-> "e2"],
      [instance_id |-> "i3", interface_id |-> "e3"] }

\* What con.get_all_vpcs() returns, and the vpc_id argument of handle_spec.
VpcLists == { <<>>, <<"v1">> }
VpcIds   == { None, "v1", "v2" }

(***************************************************************************)
(* State.                                                                  *)
(***************************************************************************)
VARIABLES
    rts,            \* the provider's route tables: table id -> (cidr -> route)
    route_spec,     \* argument of handle_spec: cidr -> list of hosts
    failed_ips,     \* argument of handle_spec
    cache,          \* common.CURRENT_STATE['routes']
    pc,             \* "idle", "pass1", "pass2", "close"
    vpc_info,       \* d['route_tables'] of get_vpc_overview (the snapshot)
    todo,           \* rest of the loop that pc names
    routes_in_rts,  \* routes_in_rts of process_route_spec_config
    con,            \* the connection: "none", "open", "closed"
    result,         \* how the last handle_spec ended
    cycle,          \* number of calls of process_route_spec_config so far
    calls,          \* history: create/replace/delete calls of this cycle
    kept,           \* history: (table, cidr) found healthy in this cycle
    prev_kept,      \* history: kept of the previous cycle
    written,        \* history: (cidr, entry) of every successful create/replace
    last_ok,        \* history: cidr -> (op, address, instance, interface) of
                    \*   the last call for the cidr that returned
    prev_failed,    \* history: a call of the previous cycle raised
    overview_failed,\* history: << all_vpcs, vpc_id >> when get_vpc_overview
                    \*   raised VpcRouteSetError in the last handle_spec
    scan            \* a call of _choose_from_hosts on its own (SpecChoose)

vars == << rts, route_spec, failed_ips, cache, pc, vpc_info, todo,
           routes_in_rts, con, result, cycle, calls, kept, prev_kept,
           written, last_ok, prev_failed, overview_failed, scan >>

(***************************************************************************)
(* Helpers on finite maps and lists.                                       *)
(***************************************************************************)
EmptyMap == [x \in {} |-> None]

MapPut(m, k, v) == [x \in (DOMAIN m) \cup {k} |-> IF x = k THEN v ELSE m[x]]

MapDel(m, k) == [x \in (DOMAIN m) \ {k} |-> m[x]]

Range(s) == {s[k] : k \in 1..Len(s)}

\* Lists over S of length at most n.
RECURSIVE SeqsUpTo(_, _)
SeqsUpTo(S, n) ==
    IF n = 0 THEN { <<>> }
    ELSE LET shorter == SeqsUpTo(S, n - 1)
         IN  shorter \cup {Append(s, x) : s \in {t \in shorter : Len(t) = n - 1},
                                          x \in S}

NoRepeat(s) == Cardinality(Range(s)) = Len(s)

RECURSIVE SumLen(_, _)
SumLen(m, dom) ==
    IF dom = {} THEN 0
    ELSE LET k == CHOOSE x \in dom : TRUE
         IN  Len(m[k]) + SumLen(m, dom \ {k})

\* Route specs: cidr -> list of distinct hosts, for some of the cidrs.
RouteSpecs ==
    LET lists == {s \in SeqsUpTo(Addresses, MaxHosts) : NoRepeat(s)}
        all   == UNION {[D -> lists] : D \in SUBSET Prefixes}
    IN  {m \in all : SumLen(m, DOMAIN m) <= MaxHosts}

\* Route tables: every table holds at most one route per cidr.
RouteTables ==
    LET one == UNION {[D -> RouteKinds] : D \in SUBSET Prefixes}
        all == [Tables -> one]
        RECURSIVE Count(_, _)
        Count(m, ts) ==
            IF ts = {} THEN 0
            ELSE LET t == CHOOSE x \in ts : TRUE
                 IN  Cardinality(DOMAIN m[t]) + Count(m, ts \ {t})
    IN  {m \in all : Count(m, Tables) <= MaxRoutes}


(***************************************************************************)
(* Exceptions.  A failing call of the provider (the boto connection)       *)
(* raises boto's EC2ResponseError, a boto.exception.StandardError; the     *)
(* functions of this module raise VpcRouteSetError; a missing dictionary   *)
(* key raises KeyError.                                                    *)
(***************************************************************************)
\* VpcRouteSetError is defined in vpcrouter/errors.py (line 27 imports it).
\* The error kinds of the specification are all caught in the cycle and
\* logged, a lookup error as a warning: the class is one that the clause
\* `except boto.exception.StandardError` catches.
VpcRouteSetErrorIsStandardError == TRUE

\* Mutant: the clause of lines 335-336 is missing.
ExceptStandardError(exc) ==
    CASE exc = "NoAuthHandlerFound" -> {"raised"}
      [] OTHER                      -> {"warning"}

\* handle_spec, lines 332-336: how a call ends when `exc` leaves its try
\* block.  KeyError and EC2ResponseError are StandardErrors: logged as a
\* warning; NoAuthHandlerFound is logged as an error; an exception that no
\* clause catches leaves handle_spec ("raised").
Except(exc) ==
    CASE exc = "NoAuthHandlerFound" -> {"error"}
      [] exc = "VpcRouteSetError"   ->
             IF VpcRouteSetErrorIsStandardError THEN {"warning"} ELSE {"raised"}
      [] OTHER                      -> {"warning"}

(***************************************************************************)
(* The functions of the file.                                              *)
(***************************************************************************)
\* Mutant: the search of lines 68-74 is left out: the first VPC is used
\* whatever the VPC id.
get_first_vpc(all_vpcs, vpc_id) ==
    IF all_vpcs = <<>> THEN None ELSE all_vpcs[1]

\* get_vpc_overview, lines 59-75: the VPC found, or None when
\* VpcRouteSetError is raised.
get_vpc_overview(all_vpcs, vpc_id) ==
    IF all_vpcs = <<>> THEN None
    ELSE IF vpc_id = None THEN all_vpcs[1]
    ELSE IF vpc_id \in Range(all_vpcs) THEN vpc_id
    ELSE None

\* d['instance_by_id'], lines 88-90.
instance_by_id ==
    [i \in {Instances[k].id : k \in 1..Len(Instances)} |->
        Instances[CHOOSE k \in 1..Len(Instances) : Instances[k].id = i]]

\* find_instance_and_emi_by_ip, lines 106-111: the first instance, and its
\* first interface, with the address; found = FALSE when VpcRouteSetError
\* is raised.
find_instance_and_emi_by_ip(ip) ==
    LET hits == UNION { { <<k, m>> : m \in {n \in 1..Len(Instances[k].interfaces) :
                              Instances[k].interfaces[n].private_ip_address = ip} } :
                        k \in 1..Len(Instances) }
    IN  IF hits = {} THEN [found |-> FALSE, instance_id |-> None, eni_id |-> None]
        ELSE LET first == CHOOSE km \in hits : \A o \in hits :
                              \/ km[1] < o[1]
                              \/ km[1] = o[1] /\ km[2] <= o[2]
             IN  [found |-> TRUE,
                  instance_id |-> Instances[first[1]].id,
                  eni_id |-> Instances[first[1]].interfaces[first[2]].id]

\* Mutant: line 123 compares the interface id with the route's instance id:
\* no interface matches.
get_no_private_ip(instance, route) == None

\* get_instance_private_ip_from_route, lines 121-126: the address of the
\* interface of `instance` that the route names, or None.
get_instance_private_ip_from_route(instance, route) ==
    LET enis == {k \in 1..Len(instance.interfaces) :
                    instance.interfaces[k].id = route.interface_id}
    IN  IF enis = {} THEN None
        ELSE instance.interfaces[CHOOSE k \in enis : \A o \in enis : k <= o]
                 .private_ip_address

\* The while loop of _choose_from_hosts, lines 150-161 (lists start at 1).
RECURSIVE ScanHosts(_, _, _, _)
ScanHosts(ip_list, failed, i, first_choice) ==
    IF ip_list[i] \notin failed THEN ip_list[i]
    ELSE LET j == IF i + 1 = Len(ip_list) + 1 THEN 1 ELSE i + 1
         IN  IF j = first_choice THEN None
             ELSE ScanHosts(ip_list, failed, j, first_choice)

\* Mutant: the randomly selected first choice is returned without the check
\* against the failed hosts.
choose_unchecked(ip_list, failed, first_choice) ==
    IF ip_list = <<>> THEN None ELSE ip_list[first_choice]

\* _choose_from_hosts, lines 140-161, with the value random.randint drew.
choose_from_hosts(ip_list, failed, first_choice) ==
    IF ip_list = <<>> THEN None
    ELSE ScanHosts(ip_list, failed, first_choice, first_choice)

\* The values random.randint(0, len(ip_list) - 1) can draw, line 145.
FirstChoices(ip_list) == IF ip_list = <<>> THEN {1} ELSE 1..Len(ip_list)

\* `hosts = route_spec.get(dcidr)` and `if hosts:`, lines 287 and 292: the
\* cidr is a key of the route spec and its list of hosts is not empty.
HostsInSpec(dcidr) == dcidr \in DOMAIN route_spec /\ route_spec[dcidr] # <<>>

(***************************************************************************)
(* The two loops of process_route_spec_config.                             *)
(***************************************************************************)
IndexOf(seq, x) == CHOOSE k \in 1..Len(seq) : seq[k] = x

\* Lines 277 and 279: the routes of the snapshot as (table, cidr), in the
\* order of the loops: table by table.
Pass1Items(snapshot) ==
    LET n   == Len(Cidrs)
        all == [k \in 1..(Len(TableIds) * n) |->
                   << TableIds[((k - 1) \div n) + 1], Cidrs[((k - 1) % n) + 1] >>]
    IN  SelectSeq(all, LAMBDA c : c[2] \in DOMAIN snapshot[c[1]])

\* Mutant: the test of line 312 is left out: _add_new_route is called for
\* every cidr of the spec and every route table.
Pass2ItemsAll(spec, seen) ==
    LET n   == Len(TableIds)
        all == [k \in 1..(Len(Cidrs) * n) |->
                   << TableIds[((k - 1) % n) + 1], Cidrs[((k - 1) \div n) + 1] >>]
    IN  SelectSeq(all, LAMBDA c : c[2] \in DOMAIN spec)

\* Mutant: the loop of line 311 ends with the first route table that lacks
\* the cidr: one route is added per cidr, not one per route table.
Pass2ItemsOnce(spec, seen) ==
    LET n   == Len(TableIds)
        all == [k \in 1..(Len(Cidrs) * n) |->
                   << TableIds[((k - 1) % n) + 1], Cidrs[((k - 1) \div n) + 1] >>]
        missing(c) == c[2] \in DOMAIN spec /\ c[2] \notin seen[c[1]]
    IN  SelectSeq(all, LAMBDA c :
            /\ missing(c)
            /\ \A k \in 1..(IndexOf(TableIds, c[1]) - 1) :
                   ~missing(<< TableIds[k], c[2] >>))

\* Lines 309-312: the (table, cidr) pairs for which _add_new_route is
\* called, in the order of the loops: cidr by cidr.
Pass2Items(spec, seen) ==
    LET n   == Len(TableIds)
        all == [k \in 1..(Len(Cidrs) * n) |->
                   << TableIds[((k - 1) % n) + 1], Cidrs[((k - 1) \div n) + 1] >>]
    IN  SelectSeq(all, LAMBDA c : c[2] \in DOMAIN spec /\ c[2] \notin seen[c[1]])

\* Mutant: line 281 after the `continue` of line 286: only routes with a
\* target instance are remembered.
SeenAfterSkip(seen, rt, dcidr) ==
    [t \in {TableIds[k] : k \in 1..IndexOf(TableIds, rt)} |->
        (IF t \in DOMAIN seen THEN seen[t] ELSE {})
            \cup (IF t = rt /\ vpc_info[rt][dcidr].instance_id # None
                  THEN {dcidr} ELSE {})]

\* Lines 278 and 281: routes_in_rts once the loop has reached the route
\* `dcidr` of table `rt`: every table up to rt has its list, and dcidr is on
\* the list of rt.
SeenAfter(seen, rt, dcidr) ==
    [t \in {TableIds[k] : k \in 1..IndexOf(TableIds, rt)} |->
        (IF t \in DOMAIN seen THEN seen[t] ELSE {})
            \cup (IF t = rt THEN {dcidr} ELSE {})]

\* Line 278 for the tables after the last route: routes_in_rts at the end of
\* the first loop.
SeenAtEnd(seen) == [t \in Tables |-> IF t \in DOMAIN seen THEN seen[t] ELSE {}]

\* Mutant: line 173 tests whether the host is in failed_ips where it should
\* test that it is not.
RouteHasFailed(current_ipaddr, hosts, failed) ==
    current_ipaddr \in Range(hosts) /\ current_ipaddr \in failed

\* Mutant: the test of line 173 is left out: a host is selected anew for
\* every route of the spec.
RouteIsStale(current_ipaddr, hosts, failed) == FALSE

\* Mutant: the check against the failed hosts of line 173 is left out.
RouteInSpec(current_ipaddr, hosts, failed) == current_ipaddr \in Range(hosts)

\* Line 173: the route points to a host of the spec that has not failed.
RouteIsGood(current_ipaddr, hosts, failed) ==
    current_ipaddr \in Range(hosts) /\ current_ipaddr \notin failed

(***************************************************************************)
(* The provider's calls and their effects.                                 *)
(***************************************************************************)
Call(op, rt, dcidr, addr, inst, eni, ok) ==
    [op |-> op, rt |-> rt, dcidr |-> dcidr, addr |-> addr,
     instance_id |-> inst, interface_id |-> eni, ok |-> ok]

\* The provider's route tables after create_route, replace_route or
\* delete_route returned (ok) or raised.
RtsAfter(tables, op, rt, dcidr, inst, eni, ok) ==
    IF ~ok THEN tables
    ELSE IF op = "delete_route" THEN [tables EXCEPT ![rt] = MapDel(@, dcidr)]
    ELSE [tables EXCEPT ![rt] =
             MapPut(@, dcidr, [instance_id |-> inst, interface_id |-> eni])]

\* Mutant: lines 304-305 are left out: the entry of a deleted route stays.
CacheKeepsDeleted(c, op, dcidr, addr, inst, eni, ok) ==
    IF ~ok \/ op = "delete_route" THEN c
    ELSE MapPut(c, dcidr, << addr, inst, eni >>)

\* Mutant: CURRENT_STATE['routes'] is updated before the provider is called,
\* so also when the call raises.
CacheBeforeCall(c, op, dcidr, addr, inst, eni, ok) ==
    IF op = "delete_route" THEN MapDel(c, dcidr)
    ELSE MapPut(c, dcidr, << addr, inst, eni >>)

\* Lines 212-214, 245-246 and 304-305: CURRENT_STATE['routes'] after the
\* call: the statements after a call that raised are not executed.
CacheAfter(c, op, dcidr, addr, inst, eni, ok) ==
    IF ~ok THEN c
    ELSE IF op = "delete_route" THEN MapDel(c, dcidr)
    ELSE MapPut(c, dcidr, << addr, inst, eni >>)

\* A call of the provider and the statements that follow it.
Mutate(op, rt, dcidr, addr, inst, eni, ok) ==
    /\ calls' = Append(calls, Call(op, rt, dcidr, addr, inst, eni, ok))
    /\ rts' = RtsAfter(rts, op, rt, dcidr, inst, eni, ok)
    /\ cache' = CacheAfter(cache, op, dcidr, addr, inst, eni, ok)
    /\ written' = IF ok /\ op # "delete_route"
                  THEN written \cup { << dcidr, << addr, inst, eni >> >> }
                  ELSE written
    /\ last_ok' = IF ok
                  THEN MapPut(last_ok, dcidr, << op, addr, inst, eni >>)
                  ELSE last_ok

NoMutation == UNCHANGED << rts, cache, calls, written, last_ok >>

(***************************************************************************)
(* Control.                                                                *)
(***************************************************************************)
\* Mutant: the second loop does not look at routes_in_rts.
EnterPass2Blind(seen) ==
    /\ routes_in_rts' = seen
    /\ todo' = Pass2Items(route_spec, [t \in Tables |-> {}])
    /\ pc' = IF todo' = <<>> THEN "close" ELSE "pass2"

\* The second loop begins (or, with nothing to add, the function returns).
EnterPass2(seen) ==
    /\ routes_in_rts' = seen
    /\ todo' = Pass2Items(route_spec, seen)
    /\ pc' = IF todo' = <<>> THEN "close" ELSE "pass2"

\* The first loop goes on to its next route.
Continue1(seen) ==
    IF Tail(todo) = <<>> THEN EnterPass2(SeenAtEnd(seen))
    ELSE /\ routes_in_rts' = seen
         /\ todo' = Tail(todo)
         /\ pc' = "pass1"

\* The second loop goes on to its next pair.
Continue2 ==
    /\ todo' = Tail(todo)
    /\ pc' = IF todo' = <<>> THEN "close" ELSE "pass2"
    /\ UNCHANGED routes_in_rts

\* An exception leaves process_route_spec_config: lines 330-336.  con.close()
\* of line 331 is skipped.
Raise(exc) ==
    /\ pc' = "idle"
    /\ todo' = <<>>
    /\ routes_in_rts' = EmptyMap
    /\ result' \in Except(exc)

(***************************************************************************)
(* Initial state: the arguments with which the caller invokes handle_spec, *)
(* the route tables of the VPC, an empty CURRENT_STATE['routes'].          *)
(***************************************************************************)
\* The hosts reported as failed: hosts of the VPC.
FailedSets == SUBSET {"a1", "a2"}

\* No call of _choose_from_hosts on its own is under way.
NoScan == [pc |-> "none"]

Init ==
    /\ rts \in RouteTables
    /\ route_spec \in RouteSpecs
    /\ failed_ips \in FailedSets
    /\ cache = EmptyMap
    /\ pc = "idle"
    /\ vpc_info = [t \in Tables |-> EmptyMap]
    /\ todo = <<>>
    /\ routes_in_rts = EmptyMap
    /\ con = "none"
    /\ result = "none"
    /\ cycle = 0
    /\ calls = <<>>
    /\ kept = {}
    /\ prev_kept = {}
    /\ written = {}
    /\ last_ok = EmptyMap
    /\ prev_failed = FALSE
    /\ overview_failed = <<>>
    /\ scan = NoScan

(***************************************************************************)
(* handle_spec.                                                            *)
(***************************************************************************)
\* Mutant: the test of line 321 is left out.
RouteSpecNotTested == FALSE

\* Line 321: `if not route_spec`.
NoRouteSpec == DOMAIN route_spec = {}

\* A call of handle_spec begins: the histories of the cycle start afresh.
\* prev_kept is the history of the cycle before when both cycles reach
\* process_route_spec_config.
NewCycle(reconciles) ==
    /\ pc = "idle"
    /\ calls' = <<>>
    /\ prev_kept' = IF reconciles THEN kept ELSE {}
    /\ prev_failed' = (reconciles /\ \E k \in 1..Len(calls) : ~calls[k].ok)
    /\ kept' = {}
    /\ UNCHANGED << route_spec, failed_ips, last_ok, scan >>

\* Lines 321-323: no route spec, return.
HandleSpecNoSpec ==
    /\ NewCycle(FALSE)
    /\ NoRouteSpec
    /\ result' = "returned"
    /\ overview_failed' = <<>>
    /\ UNCHANGED << cycle, rts, cache, written, pc, vpc_info, todo, routes_in_rts, con >>

\* Line 328: connect_to_region raises: boto found no credentials, or
\* returned no connection (lines 38-40).
HandleSpecConnectFails ==
    /\ NewCycle(FALSE)
    /\ ~NoRouteSpec
    /\ \E exc \in {"NoAuthHandlerFound", "VpcRouteSetError"} :
           result' \in Except(exc)
    /\ overview_failed' = <<>>
    /\ UNCHANGED << cycle, rts, cache, written, pc, vpc_info, todo, routes_in_rts, con >>

\* Line 329: get_vpc_overview raises (lines 61 and 73); the connection
\* stays open.
HandleSpecOverviewFails ==
    /\ NewCycle(FALSE)
    /\ ~NoRouteSpec
    /\ \E all_vpcs \in VpcLists, vpc_id \in VpcIds :
           /\ get_vpc_overview(all_vpcs, vpc_id) = None
           /\ overview_failed' = << all_vpcs, vpc_id >>
    /\ con' = "open"
    /\ result' \in Except("VpcRouteSetError")
    /\ UNCHANGED << cycle, rts, cache, written, pc, vpc_info, todo, routes_in_rts >>

\* Lines 328-330: connected, snapshot taken, process_route_spec_config
\* begins its first loop.
HandleSpecStart ==
    /\ NewCycle(TRUE)
    /\ ~NoRouteSpec
    /\ \E all_vpcs \in VpcLists, vpc_id \in VpcIds :
           get_vpc_overview(all_vpcs, vpc_id) # None
    /\ cycle < MaxCycles
    /\ cycle' = cycle + 1
    /\ con' = "open"
    /\ result' = "running"
    /\ overview_failed' = <<>>
    /\ vpc_info' = rts
    /\ IF Pass1Items(rts) = <<>>
       THEN EnterPass2(SeenAtEnd(EmptyMap))
       ELSE /\ pc' = "pass1"
            /\ todo' = Pass1Items(rts)
            /\ routes_in_rts' = EmptyMap
    /\ UNCHANGED << rts, cache, written >>

\* Line 331: process_route_spec_config returned; close and return.
HandleSpecClose ==
    /\ pc = "close"
    /\ pc' = "idle"
    /\ con' = "closed"
    /\ result' = "returned"
    /\ routes_in_rts' = EmptyMap
    /\ UNCHANGED << rts, route_spec, failed_ips, cache, vpc_info, todo, cycle,
                    calls, kept, prev_kept, written, last_ok, prev_failed,
                    overview_failed, scan >>

(***************************************************************************)
(* process_route_spec_config, first loop: one route of one route table.    *)
(***************************************************************************)
\* _check_or_update_route, lines 171-219.
CheckOrUpdateRoute(rt, dcidr, current_ipaddr, seen) ==
    LET hosts == route_spec[dcidr]
    IN  IF RouteIsGood(current_ipaddr, hosts, failed_ips)
        THEN /\ kept' = kept \cup { << rt, dcidr >> }
             /\ NoMutation
             /\ Continue1(seen)
             /\ UNCHANGED result
        ELSE /\ UNCHANGED kept
             /\ \E first_choice \in FirstChoices(hosts) :
                  LET new_addr == choose_from_hosts(hosts, failed_ips, first_choice)
                      new      == find_instance_and_emi_by_ip(new_addr)
                  IN  IF new_addr = None \/ ~new.found
                      THEN \* lines 182-186, or VpcRouteSetError caught at 216
                           NoMutation /\ Continue1(seen) /\ UNCHANGED result
                      ELSE \E ok \in BOOLEAN :
                             /\ Mutate("replace_route", rt, dcidr, new_addr,
                                       new.instance_id, new.eni_id, ok)
                             /\ IF ok THEN Continue1(seen) /\ UNCHANGED result
                                ELSE Raise("EC2ResponseError")

\* Mutant: the route that is not in the spec is logged and left alone.
DeleteRouteForgotten(rt, dcidr, seen) ==
    /\ UNCHANGED << kept, result >>
    /\ NoMutation
    /\ Continue1(seen)

\* Lines 296-305: the route is not in the spec.
DeleteRoute(rt, dcidr, seen) ==
    /\ UNCHANGED kept
    /\ \E ok \in BOOLEAN :
         /\ Mutate("delete_route", rt, dcidr, None, None, None, ok)
         /\ IF ok THEN Continue1(seen) /\ UNCHANGED result
            ELSE Raise("EC2ResponseError")

\* Lines 279-305: the body of the first loop for the next route.
Pass1Route ==
    /\ pc = "pass1"
    /\ LET rt    == Head(todo)[1]
           dcidr == Head(todo)[2]
           r     == vpc_info[rt][dcidr]
           seen  == SeenAfter(routes_in_rts, rt, dcidr)
       IN  IF r.instance_id = None
           THEN \* line 286
                NoMutation /\ Continue1(seen) /\ UNCHANGED << kept, result >>
           ELSE IF r.instance_id \notin DOMAIN instance_by_id
           THEN \* line 289 raises KeyError
                NoMutation /\ Raise("KeyError") /\ UNCHANGED kept
           ELSE LET ipaddr == get_instance_private_ip_from_route(
                                  instance_by_id[r.instance_id], r)
                IN  IF HostsInSpec(dcidr)
                    THEN CheckOrUpdateRoute(rt, dcidr, ipaddr, seen)
                    ELSE DeleteRoute(rt, dcidr, seen)
    /\ UNCHANGED << route_spec, failed_ips, vpc_info, con, cycle, prev_kept,
                    prev_failed, overview_failed, scan >>

(***************************************************************************)
(* process_route_spec_config, second loop: one missing route.              *)
(***************************************************************************)
\* _add_new_route, lines 228-250.
Pass2Route ==
    /\ pc = "pass2"
    /\ LET rt    == Head(todo)[1]
           dcidr == Head(todo)[2]
           hosts == route_spec[dcidr]
       IN  \E first_choice \in FirstChoices(hosts) :
             LET new_addr == choose_from_hosts(hosts, failed_ips, first_choice)
                 new      == find_instance_and_emi_by_ip(new_addr)
             IN  IF new_addr = None \/ ~new.found
                 THEN \* lines 230-234, or VpcRouteSetError caught at 247
                      NoMutation /\ Continue2 /\ UNCHANGED result
                 ELSE \E ok \in BOOLEAN :
                        /\ Mutate("create_route", rt, dcidr, new_addr,
                                  new.instance_id, new.eni_id, ok)
                        /\ IF ok THEN Continue2 /\ UNCHANGED result
                           ELSE Raise("EC2ResponseError")
    /\ UNCHANGED << route_spec, failed_ips, vpc_info, con, cycle, kept, prev_kept,
                    prev_failed, overview_failed, scan >>

\* A call that fails before process_route_spec_config changes nothing but
\* `result` and `con`: Spec lets the first call of handle_spec fail so.
FirstConnectFails == result = "none" /\ HandleSpecConnectFails

FirstOverviewFails == result = "none" /\ HandleSpecOverviewFails

Next ==
    \/ HandleSpecNoSpec
    \/ FirstConnectFails
    \/ FirstOverviewFails
    \/ HandleSpecStart
    \/ Pass1Route
    \/ Pass2Route
    \/ HandleSpecClose

Spec == Init /\ [][Next]_vars

(***************************************************************************)
(* The caller of handle_spec (the watcher) over time: every call may come  *)
(* with another route spec, and any call may fail to connect or to find    *)
(* its VPC.  The run starts with empty route tables and no failed hosts;   *)
(* the route specs list one host of the VPC per cidr.                      *)
(***************************************************************************)
WatchSpecs == UNION {[D -> { <<"a1">>, <<"a2">> }] : D \in SUBSET Prefixes}

InitWatch ==
    /\ Init
    /\ rts = [t \in Tables |-> EmptyMap]
    /\ route_spec = EmptyMap
    /\ failed_ips = {}

\* Line 316: the next call of handle_spec comes with another route spec.
\* The histories of a cycle start afresh.
NewArguments ==
    /\ pc = "idle"
    /\ route_spec' \in WatchSpecs \ {route_spec}
    /\ failed_ips' = failed_ips
    /\ calls' = <<>>
    /\ kept' = {}
    /\ prev_kept' = {}
    /\ prev_failed' = FALSE
    /\ overview_failed' = <<>>
    /\ UNCHANGED << rts, cache, pc, vpc_info, todo, routes_in_rts, con, result,
                    cycle, written, last_ok, scan >>

NextWatch ==
    \/ NewArguments
    \/ HandleSpecNoSpec
    \/ HandleSpecConnectFails
    \/ HandleSpecOverviewFails
    \/ HandleSpecStart
    \/ Pass1Route
    \/ Pass2Route
    \/ HandleSpecClose

SpecWatch == InitWatch /\ [][NextWatch]_vars

(***************************************************************************)
(* _choose_from_hosts on its own, statement by statement, for every list   *)
(* of hosts (hosts may repeat), every set of failed hosts and every value  *)
(* random.randint can draw.  The rest of the state stays as it is before   *)
(* the first handle_spec.  Indices start at 1.                             *)
(***************************************************************************)
InitChoose ==
    /\ rts = [t \in Tables |-> EmptyMap]
    /\ route_spec = EmptyMap
    /\ failed_ips = {}
    /\ cache = EmptyMap
    /\ pc = "idle"
    /\ vpc_info = [t \in Tables |-> EmptyMap]
    /\ todo = <<>>
    /\ routes_in_rts = EmptyMap
    /\ con = "none"
    /\ result = "none"
    /\ cycle = 0
    /\ calls = <<>>
    /\ kept = {}
    /\ prev_kept = {}
    /\ written = {}
    /\ last_ok = EmptyMap
    /\ prev_failed = FALSE
    /\ overview_failed = <<>>
    /\ \E ip_list \in SeqsUpTo(Addresses, MaxHosts + 1), failed \in SUBSET Addresses :
           scan = [pc |-> "call", ip_list |-> ip_list, failed_ips |-> failed,
                   first_choice |-> 0, i |-> 0, tested |-> <<>>, ret |-> None]

OnlyScan ==
    UNCHANGED << rts, route_spec, failed_ips, cache, pc, vpc_info, todo,
                 routes_in_rts, con, result, cycle, calls, kept, prev_kept,
                 written, last_ok, prev_failed, overview_failed >>

\* Lines 140-141: no hosts, return None.
ChooseNone ==
    /\ scan.pc = "call"
    /\ scan.ip_list = <<>>
    /\ scan' = [scan EXCEPT !.pc = "done", !.ret = None]
    /\ OnlyScan

\* Lines 145-149: the first choice is drawn.
ChooseFirst ==
    /\ scan.pc = "call"
    /\ scan.ip_list # <<>>
    /\ \E first_choice \in FirstChoices(scan.ip_list) :
           scan' = [scan EXCEPT !.pc = "loop", !.first_choice = first_choice,
                                !.i = first_choice]
    /\ OnlyScan

\* Mutant: no wraparound: the loop ends at the end of the list.
ChooseTestNoWrap ==
    /\ scan.pc = "loop"
    /\ LET tested == Append(scan.tested, scan.i)
       IN  IF scan.ip_list[scan.i] \notin scan.failed_ips
           THEN scan' = [scan EXCEPT !.pc = "done", !.tested = tested,
                                     !.ret = scan.ip_list[scan.i]]
           ELSE IF scan.i + 1 = Len(scan.ip_list) + 1
                THEN scan' = [scan EXCEPT !.pc = "done", !.tested = tested,
                                          !.ret = None]
                ELSE scan' = [scan EXCEPT !.tested = tested, !.i = scan.i + 1]
    /\ OnlyScan

\* Lines 150-161: one iteration of the loop.
ChooseTest ==
    /\ scan.pc = "loop"
    /\ LET tested == Append(scan.tested, scan.i)
           j      == IF scan.i + 1 = Len(scan.ip_list) + 1 THEN 1 ELSE scan.i + 1
       IN  IF scan.ip_list[scan.i] \notin scan.failed_ips
           THEN \* line 153
                scan' = [scan EXCEPT !.pc = "done", !.tested = tested,
                                     !.ret = scan.ip_list[scan.i]]
           ELSE IF j = scan.first_choice
                THEN \* lines 160-161
                     scan' = [scan EXCEPT !.pc = "done", !.tested = tested,
                                          !.i = j, !.ret = None]
                ELSE scan' = [scan EXCEPT !.tested = tested, !.i = j]
    /\ OnlyScan

NextChoose ==
    \/ ChooseNone
    \/ ChooseFirst
    \/ ChooseTest

SpecChoose == InitChoose /\ [][NextChoose]_vars

(***************************************************************************)
(* Vocabulary of the properties.                                           *)
(***************************************************************************)
\* The route has a target instance.
Attached(r) == r.instance_id # None

\* The private address a route resolves to, None when it resolves to none.
RouteAddress(r) ==
    IF r.instance_id \in DOMAIN instance_by_id
    THEN get_instance_private_ip_from_route(instance_by_id[r.instance_id], r)
    ELSE None

\* The hosts of a cidr of the route spec that have not failed.
Healthy(dcidr) == Range(route_spec[dcidr]) \ failed_ips

\* The calls of this cycle for a route table and a cidr.
CallsFor(rt, dcidr) ==
    {k \in 1..Len(calls) : calls[k].rt = rt /\ calls[k].dcidr = dcidr}

\* A call of handle_spec that reached process_route_spec_config has ended,
\* and ended by returning from line 331.
CycleCompleted == pc = "idle" /\ cycle >= 1 /\ result = "returned"

(***************************************************************************)
(* C1.  Failover avoidance: every create_route and replace_route call of a *)
(* cycle targets the interface of an address that is listed for the cidr   *)
(* in the route spec and is not in failed_ips; so a route whose address    *)
(* has failed is never replaced by a route to a failed address.            *)
(***************************************************************************)
C1_FailoverAvoidance ==
    \A k \in 1..Len(calls) :
        calls[k].op # "delete_route" =>
            /\ calls[k].dcidr \in DOMAIN route_spec
            /\ calls[k].addr \in Range(route_spec[calls[k].dcidr])
            /\ calls[k].addr \notin failed_ips
            /\ RouteAddress([instance_id |-> calls[k].instance_id,
                             interface_id |-> calls[k].interface_id])
                   = calls[k].addr

\* C1 happens: a route whose address has failed was replaced, the cidr
\* listing a failed host and a host that has not failed.
C1_Witness ==
    \E k \in 1..Len(calls) :
        /\ calls[k].op = "replace_route"
        /\ calls[k].ok
        /\ RouteAddress(vpc_info[calls[k].rt][calls[k].dcidr]) \in failed_ips
        /\ Range(route_spec[calls[k].dcidr]) \cap failed_ips # {}

(***************************************************************************)
(* C2.  Coverage, as claimed: when every cidr of the route spec lists a    *)
(* host that has not failed, then after a cycle (one that returned, so     *)
(* that every call it made was applied) every route table has a route with *)
(* a target instance for every cidr of the route spec, and the route       *)
(* resolves to an address that has not failed.                             *)
(***************************************************************************)
EveryCidrHasHealthyHost ==
    /\ ~NoRouteSpec
    /\ \A p \in DOMAIN route_spec : Healthy(p) # {}

C2_CoverageAsClaimed ==
    (CycleCompleted /\ EveryCidrHasHealthyHost) =>
        \A t \in Tables : \A p \in DOMAIN route_spec :
            /\ p \in DOMAIN rts[t]
            /\ Attached(rts[t][p])
            /\ RouteAddress(rts[t][p]) \notin failed_ips

(***************************************************************************)
(* C2, amended.  When, besides, every host of the route spec that has not  *)
(* failed is the address of an interface of the snapshot, then after a     *)
(* cycle that returned, every route table whose snapshot had no route      *)
(* without target instance for a cidr of the route spec has a route with   *)
(* target instance for it, to a host listed for the cidr that has not      *)
(* failed; a table whose snapshot had a route without target instance for  *)
(* the cidr still has exactly that route.                                  *)
(***************************************************************************)
HealthyHostsHaveInterfaces ==
    \A p \in DOMAIN route_spec : \A a \in Healthy(p) :
        find_instance_and_emi_by_ip(a).found

ForeignInSnapshot(t, p) ==
    p \in DOMAIN vpc_info[t] /\ ~Attached(vpc_info[t][p])

C2_Coverage ==
    (CycleCompleted /\ EveryCidrHasHealthyHost /\ HealthyHostsHaveInterfaces) =>
        \A t \in Tables : \A p \in DOMAIN route_spec :
            /\ p \in DOMAIN rts[t]
            /\ IF ForeignInSnapshot(t, p)
               THEN rts[t][p] = vpc_info[t][p]
               ELSE /\ Attached(rts[t][p])
                    /\ RouteAddress(rts[t][p]) \in Healthy(p)

\* C2 happens: a cycle that returned replaced a route to a failed host in
\* one table and created the missing route in the other.
C2_Witness ==
    /\ CycleCompleted /\ EveryCidrHasHealthyHost /\ HealthyHostsHaveInterfaces
    /\ \E j, k \in 1..Len(calls) :
          /\ calls[j].op = "replace_route"
          /\ calls[k].op = "create_route"
          /\ RouteAddress(vpc_info[calls[j].rt][calls[j].dcidr]) \in failed_ips
    /\ \A t \in Tables : \A p \in DOMAIN route_spec :
          p \in DOMAIN rts[t] /\ RouteAddress(rts[t][p]) \in Healthy(p)

(***************************************************************************)
(* C3.  Cleanup, as claimed: for every route spec, after a call of         *)
(* handle_spec that returned, no route table holds a route with target     *)
(* instance whose cidr is absent from the route spec.                      *)
(***************************************************************************)
C3_CleanupAsClaimed ==
    (pc = "idle" /\ result = "returned") =>
        \A t \in Tables : \A p \in DOMAIN rts[t] :
            Attached(rts[t][p]) => p \in DOMAIN route_spec

(***************************************************************************)
(* C3, amended.  For every route spec that is not empty, a call of         *)
(* handle_spec that returns from line 331 has called delete_route exactly  *)
(* once, and made no other call, for every route of the snapshot with      *)
(* target instance whose cidr is absent from the route spec, and no such   *)
(* route remains in any route table.                                       *)
(***************************************************************************)
C3_Cleanup ==
    (CycleCompleted /\ ~NoRouteSpec) =>
        \A t \in Tables :
            /\ \A p \in DOMAIN vpc_info[t] :
                 (Attached(vpc_info[t][p]) /\ p \notin DOMAIN route_spec) =>
                     /\ Cardinality(CallsFor(t, p)) = 1
                     /\ \A k \in CallsFor(t, p) :
                            calls[k].op = "delete_route" /\ calls[k].ok
            /\ \A p \in DOMAIN rts[t] :
                 Attached(rts[t][p]) => p \in DOMAIN route_spec

\* C3 happens: a cycle that returned found a route with target instance
\* whose cidr the route spec does not have, and the route is gone.
C3_Witness ==
    /\ CycleCompleted
    /\ \E t \in Tables : \E p \in DOMAIN vpc_info[t] :
          /\ Attached(vpc_info[t][p])
          /\ p \notin DOMAIN route_spec
          /\ p \notin DOMAIN rts[t]

(***************************************************************************)
(* C4.  Exhaustion: for a cidr of the route spec all of whose hosts are in *)
(* failed_ips, _choose_from_hosts returns None whatever the random first   *)
(* choice, and the cycle makes no create_route, replace_route or           *)
(* delete_route call for the cidr in any route table.                      *)
(***************************************************************************)
Exhausted(p) == p \in DOMAIN route_spec /\ Healthy(p) = {}

C4_Exhaustion ==
    \A p \in Prefixes :
        Exhausted(p) =>
            /\ \A first_choice \in FirstChoices(route_spec[p]) :
                   choose_from_hosts(route_spec[p], failed_ips, first_choice) = None
            /\ \A k \in 1..Len(calls) : calls[k].dcidr # p

(***************************************************************************)
(* C5.  Routes without target instance are never mutated: no call of a     *)
(* cycle is for a (route table, cidr) whose route in the snapshot of the   *)
(* cycle has no target instance, and every such route is still in the      *)
(* provider's route table, unchanged.                                      *)
(***************************************************************************)
C5_ForeignRoutesUntouched ==
    /\ \A k \in 1..Len(calls) : ~ForeignInSnapshot(calls[k].rt, calls[k].dcidr)
    /\ \A t \in Tables : \A p \in Prefixes :
          ForeignInSnapshot(t, p) =>
              p \in DOMAIN rts[t] /\ rts[t][p] = vpc_info[t][p]

\* C5 happens: a cycle that returned had a route without target instance
\* for a cidr of the route spec in one table and created the route for the
\* same cidr in the other table.
C5_Witness ==
    /\ CycleCompleted
    /\ \E t \in Tables : \E p \in DOMAIN route_spec :
          /\ ForeignInSnapshot(t, p)
          /\ \E k \in 1..Len(calls) :
                calls[k].dcidr = p /\ calls[k].rt # t /\ calls[k].ok

(***************************************************************************)
(* C6.  CURRENT_STATE['routes'] is written only by a create_route or       *)
(* replace_route call that returned: every entry is the (address, instance *)
(* id, interface id) of an earlier successful create or replace for its    *)
(* cidr; a step changes the cache only if it makes a call that returns;    *)
(* and a call that raises leaves the cache as it was.                      *)
(***************************************************************************)
CallFails ==
    Len(calls') = Len(calls) + 1 /\ ~calls'[Len(calls')].ok

CallReturns ==
    Len(calls') = Len(calls) + 1 /\ calls'[Len(calls')].ok

C6_CacheEntriesWritten ==
    \A p \in DOMAIN cache : << p, cache[p] >> \in written

C6_CacheWrittenOnSuccess ==
    /\ []C6_CacheEntriesWritten
    /\ [][ /\ CallFails => cache' = cache
           /\ cache' # cache => CallReturns ]_vars

\* C6 happens: a call failed in a cycle while the cache held an entry.
C6_Witness ==
    /\ cache # EmptyMap
    /\ \E k \in 1..Len(calls) : ~calls[k].ok
    /\ C6_CacheEntriesWritten

(***************************************************************************)
(* C7.  Mutation failure isolation: when a create_route, replace_route or  *)
(* delete_route call fails, the failure is handled at that decision and    *)
(* the cycle continues: the step is followed by the next route, the next   *)
(* missing (cidr, table) pair or the regular end of                        *)
(* process_route_spec_config, never by the end of the cycle.               *)
(***************************************************************************)
CycleGoesOn == pc' \in {"pass1", "pass2", "close"}

C7_MutationFailureIsolation == [][CallFails => CycleGoesOn]_vars

(***************************************************************************)
(* C8.  Lookup failure isolation: when the target instance of a route is   *)
(* not in the instance index of the snapshot, or no interface of the       *)
(* snapshot carries the host selected for a route or a missing cidr, the   *)
(* failure is caught for that route or cidr and the loops go on with the   *)
(* next one.                                                               *)
(***************************************************************************)
\* The route at hand names an instance that instance_by_id does not have.
InstanceLookupFails ==
    /\ pc = "pass1"
    /\ LET r == vpc_info[Head(todo)[1]][Head(todo)[2]]
       IN  Attached(r) /\ r.instance_id \notin DOMAIN instance_by_id

\* A host was selected for the route or the missing cidr at hand (one that
\* has not failed exists, and the route was not kept), yet no call is made:
\* find_instance_and_emi_by_ip raised.
AddressLookupFails ==
    /\ pc \in {"pass1", "pass2"}
    /\ HostsInSpec(Head(todo)[2])
    /\ Healthy(Head(todo)[2]) # {}
    /\ pc = "pass1" =>
          LET r == vpc_info[Head(todo)[1]][Head(todo)[2]]
          IN  Attached(r) /\ r.instance_id \in DOMAIN instance_by_id
    /\ calls' = calls
    /\ kept' = kept

C8_LookupFailureIsolation ==
    [][(InstanceLookupFails \/ AddressLookupFails) => CycleGoesOn]_vars

(***************************************************************************)
(* C9.  Idempotence: when process_route_spec_config runs twice in          *)
(* succession with the same route spec and failed_ips, the second time on  *)
(* the route tables as the first run left them, the second run makes no    *)
(* create, replace or delete call for a (route table, cidr) whose route    *)
(* the first run found in the spec and healthy.                            *)
(***************************************************************************)
C9_Idempotence ==
    \A k \in 1..Len(calls) : << calls[k].rt, calls[k].dcidr >> \notin prev_kept

\* C9 happens: the second run has ended; it kept again what the first run
\* kept, and made a call for another (route table, cidr).
C9_Witness ==
    /\ pc = "idle" /\ cycle = 2
    /\ prev_kept # {}
    /\ kept = prev_kept
    /\ calls # <<>>

(***************************************************************************)
(* C10.  An empty route spec is a no-op: with an empty route spec every    *)
(* call of handle_spec returns at once: no connection is opened, no        *)
(* snapshot is taken, no create, replace or delete call is made, and the   *)
(* provider's route tables and CURRENT_STATE['routes'] stay as they were.  *)
(***************************************************************************)
C10_EmptySpecNoOp ==
    [][ DOMAIN route_spec = {} =>
            /\ pc' = "idle" /\ result' = "returned"
            /\ con' = con
            /\ vpc_info' = vpc_info
            /\ calls' = <<>>
            /\ rts' = rts
            /\ cache' = cache ]_vars

\* C10 happens: handle_spec has returned for an empty route spec while a
\* route table holds a route with target instance.
C10_Witness ==
    /\ DOMAIN route_spec = {}
    /\ result = "returned"
    /\ con = "none"
    /\ \E t \in Tables : \E p \in DOMAIN rts[t] : Attached(rts[t][p])

(***************************************************************************)
(* C11.  A failing snapshot aborts the cycle without mutation:             *)
(* get_vpc_overview raises exactly when the provider returns no VPC or the *)
(* VPC id given matches none of the VPCs returned; the call of handle_spec *)
(* then ends without any create, replace or delete call, and the           *)
(* provider's route tables and CURRENT_STATE['routes'] are as they were.   *)
(***************************************************************************)
NoSuchVpc(all_vpcs, vpc_id) ==
    \/ all_vpcs = <<>>
    \/ vpc_id # None /\ vpc_id \notin Range(all_vpcs)

C11_OverviewFailsExactly ==
    /\ \A all_vpcs \in VpcLists, vpc_id \in VpcIds :
           get_vpc_overview(all_vpcs, vpc_id) = None <=> NoSuchVpc(all_vpcs, vpc_id)
    /\ overview_failed # <<>> =>
           /\ NoSuchVpc(overview_failed[1], overview_failed[2])
           /\ pc = "idle"
           /\ result # "returned"
           /\ calls = <<>>

C11_SnapshotFailureAborts ==
    /\ []C11_OverviewFailsExactly
    /\ [][ overview_failed' # <<>> =>
               /\ pc = "idle"
               /\ rts' = rts
               /\ cache' = cache
               /\ last_ok' = last_ok ]_vars

\* C11 happens: the VPC named is not among the VPCs of the provider, while
\* the route tables hold a route and CURRENT_STATE['routes'] an entry from
\* an earlier cycle, and the route spec asks for a route that is missing.
C11_Witness ==
    /\ overview_failed = << <<"v1">>, "v2" >>
    /\ cache # EmptyMap
    /\ \E t \in Tables : \E p \in DOMAIN route_spec : p \notin DOMAIN rts[t]

(***************************************************************************)
(* C12.  Scoped session release: a call of handle_spec that connected and  *)
(* took its snapshot closes the connection on every path by which it ends, *)
(* whatever happens in process_route_spec_config: once the call has ended, *)
(* its connection is closed.                                               *)
(***************************************************************************)
\* The last call of handle_spec reached process_route_spec_config and has
\* ended.  (In Spec every call after the first such call reaches it.)
ReconcilingCallEnded == pc = "idle" /\ cycle >= 1

C12_SessionRelease == ReconcilingCallEnded => con = "closed"

(***************************************************************************)
(* C13.  handle_spec always returns to its caller: whatever the            *)
(* collaborators do (no connection, no credentials, no VPC, an instance    *)
(* or interface that cannot be found, a failing create, replace or delete  *)
(* call), no exception leaves handle_spec, and a call that has begun to    *)
(* reconcile ends after finitely many steps: in every state of the cycle a *)
(* step is possible, and every step takes the cycle closer to its end.     *)
(***************************************************************************)
\* The steps a cycle has left at most: the rest of the loop at hand, the
\* second loop when the first is at hand, and the end of handle_spec.
StepsLeft ==
    CASE pc = "idle"  -> 0
      [] pc = "close" -> 1
      [] pc = "pass2" -> 1 + Len(todo)
      [] pc = "pass1" -> 2 + Len(todo) + Len(TableIds) * Len(Cidrs)

C13_NothingEscapes ==
    /\ result \in {"none", "running", "returned", "warning", "error"}
    /\ pc = "idle" => result # "running"
    /\ pc # "idle" =>
           /\ result = "running"
           /\ ENABLED (Pass1Route \/ Pass2Route \/ HandleSpecClose)

WrapOrder(n, first) == [k \in 1..n |-> ((first - 1 + k - 1) % n) + 1]

\* The tests the scan of scan.ip_list has to make: up to the first host
\* that has not failed, all of them when there is none.
TestsNeeded ==
    LET n     == Len(scan.ip_list)
        order == WrapOrder(n, scan.first_choice)
        alive == {k \in 1..n : scan.ip_list[order[k]] \notin scan.failed_ips}
    IN  IF alive = {} THEN order
        ELSE SubSeq(order, 1, CHOOSE k \in alive : \A o \in alive : k <= o)

C14_SelectorResult ==
    /\ NoRepeat(scan.tested)
    /\ Len(scan.tested) <= Len(scan.ip_list)
    /\ scan.pc = "call" => ENABLED (ChooseNone \/ ChooseFirst)
    /\ scan.pc = "loop" => ENABLED ChooseTest
    /\ scan.pc = "done" =>
          /\ scan.ret = None <=>
                 (scan.ip_list = <<>> \/ Range(scan.ip_list) \subseteq scan.failed_ips)
          /\ scan.ip_list # <<>> =>
                 /\ scan.tested = TestsNeeded
                 /\ scan.ret # None =>
                        scan.ret = scan.ip_list[scan.tested[Len(scan.tested)]]
                 /\ scan.ret = choose_from_hosts(scan.ip_list, scan.failed_ips,
                                                 scan.first_choice)

\* C14 happens: the scan began at the last position of a list of three
\* hosts, wrapped around, and returned the second host, the third and the
\* first having failed.
C14_Witness ==
    /\ scan.pc = "done"
    /\ Len(scan.ip_list) = 3
    /\ scan.first_choice = 3
    /\ scan.tested = << 3, 1, 2 >>
    /\ scan.ret = scan.ip_list[2]

(***************************************************************************)
(* C15.  Keeping a route and giving up on a cidr change nothing: for a     *)
(* route with target instance that resolves to a host listed for its cidr  *)
(* that has not failed, and for a route or a missing (route table, cidr)   *)
(* for which _choose_from_hosts is called and returns None, the cycle      *)
(* makes no create, replace or delete call for the (route table, cidr),    *)
(* and the step that decides so leaves CURRENT_STATE['routes'] and the     *)
(* provider's route tables as they were.                                   *)
(***************************************************************************)
\* Line 173 holds for the route of the snapshot.
KeptRoute(t, p) ==
    /\ p \in DOMAIN vpc_info[t]
    /\ Attached(vpc_info[t][p])
    /\ HostsInSpec(p)
    /\ RouteAddress(vpc_info[t][p]) \in Range(route_spec[p])
    /\ RouteAddress(vpc_info[t][p]) \notin failed_ips

\* Lines 181 and 229: _choose_from_hosts is called for the route of the
\* snapshot, or for the cidr the table lacks, and returns None: the cidr
\* lists no host that has not failed.
NoTarget(t, p) ==
    /\ p \in DOMAIN route_spec
    /\ Healthy(p) = {}
    /\ p \in DOMAIN vpc_info[t] =>
           /\ Attached(vpc_info[t][p])
           /\ vpc_info[t][p].instance_id \in DOMAIN instance_by_id
           /\ HostsInSpec(p)
           /\ ~KeptRoute(t, p)

\* The cycle is about to decide on (t, p).
Deciding(t, p) ==
    /\ pc \in {"pass1", "pass2"}
    /\ Head(todo) = << t, p >>

C15_NoCallForKeptOrNoTarget ==
    \A t \in Tables : \A p \in Prefixes :
        (pc # "idle" /\ (KeptRoute(t, p) \/ NoTarget(t, p))) => CallsFor(t, p) = {}

C15_KeepAndNoOpChangeNothing ==
    /\ []C15_NoCallForKeptOrNoTarget
    /\ [][ \A t \in Tables : \A p \in Prefixes :
              (Deciding(t, p) /\ (KeptRoute(t, p) \/ NoTarget(t, p))) =>
                  /\ calls' = calls
                  /\ rts' = rts
                  /\ cache' = cache
                  /\ CycleGoesOn ]_vars

\* C15 happens: a cycle that returned kept a route, found no target for a
\* cidr whose hosts have all failed, and made a call for a third (route
\* table, cidr), which wrote CURRENT_STATE['routes'].
C15_Witness ==
    /\ CycleCompleted
    /\ \E t \in Tables : \E p \in Prefixes : KeptRoute(t, p)
    /\ \E t \in Tables : \E p \in Prefixes : NoTarget(t, p) /\ route_spec[p] # <<>>
    /\ calls # <<>>
    /\ cache # EmptyMap

(***************************************************************************)
(* C16.  The second loop decides for every route table on its own:         *)
(* _add_new_route, and in it _choose_from_hosts with a first choice of its *)
(* own, is called once for every (cidr of the spec, route table) pair that *)
(* lacks the route; so a cycle that returns has made exactly one           *)
(* create_route call for every such pair whose cidr has a host that has    *)
(* not failed (the hosts that have not failed having interfaces), to one   *)
(* of these hosts.  Two tables that lack the same cidr can end with routes *)
(* to different hosts (the witness).                                       *)
(***************************************************************************)
\* The snapshot's table t has no route for the cidr p of the spec.
Missing(t, p) == p \in DOMAIN route_spec /\ p \notin DOMAIN vpc_info[t]

C16_OneSelectionPerTable ==
    CycleCompleted =>
        \A t \in Tables : \A p \in Prefixes :
            (/\ Missing(t, p)
             /\ Healthy(p) # {}
             /\ \A a \in Healthy(p) : find_instance_and_emi_by_ip(a).found) =>
                /\ Cardinality(CallsFor(t, p)) = 1
                /\ \A k \in CallsFor(t, p) :
                       /\ calls[k].op = "create_route"
                       /\ calls[k].addr \in Healthy(p)
                /\ p \in DOMAIN rts[t]
                /\ RouteAddress(rts[t][p]) \in Healthy(p)

\* C16 happens: both route tables lacked a cidr with two hosts that have
\* not failed, and the cycle left them with routes to different hosts.
C16_Witness ==
    /\ CycleCompleted
    /\ \E p \in Prefixes :
          /\ \A t \in Tables : Missing(t, p) /\ p \in DOMAIN rts[t]
          /\ Cardinality(Healthy(p)) >= 2
          /\ RouteAddress(rts["rt1"][p]) # RouteAddress(rts["rt2"][p])
          /\ \A t \in Tables : RouteAddress(rts[t][p]) \in Healthy(p)

(***************************************************************************)
(* C17.  CURRENT_STATE['routes'] tracks the last successful call for every *)
(* cidr, across cycles: a cidr is a key exactly when the last call for it  *)
(* that returned, in whatever route table and cycle, is a create_route or  *)
(* a replace_route, and its entry is the (address, instance id, interface  *)
(* id) of that call; between the cycles, and in calls of handle_spec that  *)
(* end before process_route_spec_config, no entry is dropped or changed.   *)
(***************************************************************************)
C17_CacheIsLastCall ==
    \A p \in Prefixes :
        /\ p \in DOMAIN cache <=>
               (p \in DOMAIN last_ok /\ last_ok[p][1] # "delete_route")
        /\ p \in DOMAIN cache =>
               cache[p] = << last_ok[p][2], last_ok[p][3], last_ok[p][4] >>

C17_CacheTracksLastMutation ==
    /\ []C17_CacheIsLastCall
    /\ [][pc = "idle" => cache' = cache]_vars

\* C17 happens: a cidr whose route an earlier cycle created has been
\* deleted and has no entry, the entry of another cidr is that of a
\* replace_route which followed a create_route to another host.
C17_Witness ==
    /\ pc = "idle"
    /\ \E p \in Prefixes :
          /\ p \in DOMAIN last_ok /\ last_ok[p][1] = "delete_route"
          /\ p \notin DOMAIN cache
          /\ \E e \in written : e[1] = p
    /\ \E q \in DOMAIN cache :
          /\ last_ok[q][1] = "replace_route"
          /\ \E e \in written : e[1] = q /\ e[2] # cache[q]

(***************************************************************************)
(* C18.  Convergence is a fixed point: when every host of the route spec   *)
(* that has not failed is the address of an interface of the snapshot and  *)
(* no provider call raises, then a cycle that follows another cycle with   *)
(* the same route spec and failed hosts, on the route tables as that cycle *)
(* left them, makes no create, replace or delete call at all and leaves    *)
(* CURRENT_STATE['routes'] and the route tables unchanged.                 *)
(***************************************************************************)
\* The cycle at hand (or just ended) follows a cycle in which no call raised.
SecondCycle == cycle >= 2 /\ ~prev_failed

C18_NoCallInSecondCycle ==
    (SecondCycle /\ HealthyHostsHaveInterfaces) => calls = <<>>

C18_FixedPoint ==
    /\ []C18_NoCallInSecondCycle
    /\ [][ (SecondCycle /\ HealthyHostsHaveInterfaces)' =>
               cache' = cache /\ rts' = rts ]_vars

\* C18 happens: a second cycle has returned without a call, the first
\* having deleted a route and created others.
C18_Witness ==
    /\ CycleCompleted
    /\ SecondCycle /\ HealthyHostsHaveInterfaces
    /\ calls = <<>>
    /\ cache # EmptyMap
    /\ \E p \in DOMAIN last_ok : last_ok[p][1] = "delete_route"
    /\ \E p \in DOMAIN last_ok : last_ok[p][1] = "create_route"

(***************************************************************************)
(* C19.  At most one call per (route table, cidr) and cycle: with route    *)
(* tables that hold at most one route per cidr, a run of                   *)
(* process_route_spec_config makes at most one create_route, replace_route *)
(* or delete_route call for a (route table, cidr); the second loop creates *)
(* no route for a pair whose route the first loop saw, and replace_route   *)
(* and delete_route are called only for routes of the snapshot.            *)
(***************************************************************************)
C19_OneCallPerRoute ==
    /\ \A t \in Tables : \A p \in Prefixes : Cardinality(CallsFor(t, p)) <= 1
    /\ \A k \in 1..Len(calls) :
          calls[k].op = "create_route" <=>
              calls[k].dcidr \notin DOMAIN vpc_info[calls[k].rt]

\* C19 happens: a cycle that returned replaced a route in the first loop
\* and created three routes in the second, one of them for the same cidr
\* in the other route table.
C19_Witness ==
    /\ CycleCompleted
    /\ Len(calls) = 4
    /\ calls[1].op = "replace_route"
    /\ \E k \in 2..4 : calls[k].dcidr = calls[1].dcidr /\ calls[k].rt # calls[1].rt

(***************************************************************************)
(* C20.  A replace always changes the target: whenever replace_route is    *)
(* called for a route, the address selected differs from the address the   *)
(* route resolves to in the snapshot (which may be none), and so does the  *)
(* (instance, interface) the call names: no route is replaced with itself, *)
(* whatever the route spec, the failed hosts and the first choice.         *)
(***************************************************************************)
C20_ReplaceChangesTarget ==
    \A k \in 1..Len(calls) :
        calls[k].op = "replace_route" =>
            LET r == vpc_info[calls[k].rt][calls[k].dcidr]
            IN  /\ calls[k].addr # RouteAddress(r)
                /\ << calls[k].instance_id, calls[k].interface_id >>
                       # << r.instance_id, r.interface_id >>

\* C20 happens: a route to a host that has not failed, which the spec no
\* longer lists for the cidr, was replaced by a route to a listed host.
C20_Witness ==
    \E k \in 1..Len(calls) :
        /\ calls[k].op = "replace_route"
        /\ calls[k].ok
        /\ RouteAddress(vpc_info[calls[k].rt][calls[k].dcidr]) \in Addresses \ failed_ips
        /\ rts[calls[k].rt][calls[k].dcidr].instance_id = calls[k].instance_id

====
